---- MODULE Spec2Model ----
(***************************************************************************)
(* A model of lazymut's LazyMut<T, F> (src/src/lib.rs): a lazily           *)
(* initialised cell whose value is handed out by mutable reference.        *)
(*                                                                         *)
(* One cell is followed from its construction (LazyMut::new(f) or          *)
(* LazyMut::default()) through any sequence of try_get, try_get_mut, get,  *)
(* Debug formatting, writes through a returned &mut T, and the consuming   *)
(* into_inner.  T is a small integer type; an initializer F either returns *)
(* a value or panics.  get() is split at its one call of the initializer,  *)
(* so the state the cell has while the initializer runs is a state of the  *)
(* model.  A panic is an outcome of the call; the caller may catch it and  *)
(* go on using the cell.                                                   *)
(***************************************************************************)
EXTENDS Integers, Sequences, FiniteSets, TLC

\* Largest value of T the model draws (initializer results and writes).
MaxVal == 2

Vals == 0 .. MaxVal

\* T::default() for the integer T of the model.
DefaultVal == 0

\* The initializers F: a closure returning ret, or one that panics.
Initializers ==
    {[aborts |-> FALSE, ret |-> v] : v \in Vals} \cup {[aborts |-> TRUE]}

\* enum State<T, F> { Uninit(F), Inited(T), Poisoned }
Uninit(f) == [tag |-> "Uninit", f |-> f]
Inited(v) == [tag |-> "Inited", val |-> v]
Poisoned == [tag |-> "Poisoned"]

\* The cell after into_inner(self) has taken it by value: it no longer exists.
Moved == [tag |-> "Moved"]

\* Option<_>: what a call returns.  ref tells a shared reference into the
\* cell ("shared"), a mutable one ("mut") and an owned value ("owned") apart.
None == [kind |-> "None"]
Some(v, r) == [kind |-> "Some", val |-> v, ref |-> r]

\* &mut T pointing at the value stored in the cell; val is what it reads.
RefMut(v) == [kind |-> "RefMut", val |-> v]

\* A panic unwinding out of the call, with its message.
Panic(m) == [kind |-> "Panic", msg |-> m]

\* No result yet: get() is still inside the initializer.
Pending == [kind |-> "Pending"]

PoisonedMsg == "LazyMut instance has previously been poisoned"
InitializerMsg == "initializer panicked"
UnreachableMsg == "internal error: entered unreachable code"
UnwrapMsg == "called Option::unwrap() on a None value"

\* fn panic_poisoned() -> !
panic_poisoned == Panic(PoisonedMsg)

\* Seeded fault: new running the initializer at once instead of storing it.
new_Eager(f) == IF f.aborts THEN Poisoned ELSE Inited(f.ret)

\* LazyMut::new(f)
new(f) == Uninit(f)

\* Seeded fault: Default derived on the enum with Poisoned as its default
\* variant.
default_Poisoned == Poisoned

\* impl Default for State: Self::Inited(Default::default())
default == Inited(DefaultVal)

VARIABLES
    state,      \* LazyMut.state
    local,      \* get_or_init's local f while the initializer runs, else <<>>
    pc,         \* "idle" between calls, "init" inside the initializer
    result,     \* what the last call returned (or the panic it raised)
    lastOp,     \* the last call made on the cell
    ctor,       \* how the cell was built, and with which initializer
    calls,      \* how many times the initializer has been invoked
    called,     \* the calls made on the cell so far
    written     \* <<w>>: the last value written through a &mut T, else <<>>

vars == <<state, local, pc, result, lastOp, ctor, calls, called, written>>

\* Seeded fault: try_get treating a Poisoned cell as get() does, by calling
\* panic_poisoned().
State_try_get_Strict(s) ==
    CASE s.tag = "Inited" -> [state |-> s, out |-> Some(s.val, "shared")]
      [] s.tag = "Poisoned" -> [state |-> s, out |-> panic_poisoned]
      [] s.tag = "Uninit" -> [state |-> s, out |-> None]

\* Seeded fault: try_get testing for the wrong variant, so that it never
\* finds a value.
State_try_get_Never(s) ==
    [state |-> s, out |-> None]

\* Seeded fault: try_get_mut testing for the wrong variant, so that it never
\* finds a value.
State_try_get_mut_Never(s) ==
    [state |-> s, out |-> None]

\* Seeded fault: try_get_mut forcing the initialization of an Uninit cell,
\* as get() does.
State_try_get_mut_Init(s) ==
    CASE s.tag = "Inited" -> [state |-> s, out |-> Some(s.val, "mut")]
      [] s.tag = "Poisoned" -> [state |-> s, out |-> None]
      [] s.tag = "Uninit" ->
            IF s.f.aborts
            THEN [state |-> Poisoned, out |-> Panic(InitializerMsg)]
            ELSE [state |-> Inited(s.f.ret), out |-> Some(s.f.ret, "mut")]

\* State::try_get(&self) -> Option<&T>.  state is *self afterwards, out
\* what the call returns.
State_try_get(s) ==
    IF s.tag = "Inited"
    THEN [state |-> s, out |-> Some(s.val, "shared")]
    ELSE [state |-> s, out |-> None]

\* State::try_get_mut(&mut self) -> Option<&mut T>
State_try_get_mut(s) ==
    IF s.tag = "Inited"
    THEN [state |-> s, out |-> Some(s.val, "mut")]
    ELSE [state |-> s, out |-> None]

\* LazyMut::try_get: self.state.try_get()
try_get(s) == State_try_get(s)

\* LazyMut::try_get_mut: self.state.try_get_mut()
try_get_mut(s) == State_try_get_mut(s)

\* Option::unwrap() of the Option<&mut T> that get_or_init unwraps.
unwrap(o) == IF o.kind = "Some" THEN RefMut(o.val) ELSE Panic(UnwrapMsg)

\* Seeded fault: into_inner with the patterns of the Uninit and Inited arms
\* exchanged, so that a stored value is dropped and None returned.
into_inner_DropsValue(s) ==
    CASE s.tag = "Uninit" -> [out |-> None, call |-> <<>>]
      [] s.tag = "Poisoned" -> [out |-> panic_poisoned, call |-> <<>>]
      [] s.tag = "Inited" -> [out |-> None, call |-> <<>>]

\* Seeded fault: into_inner forcing the initializer of an Uninit cell to get
\* a value to return.
into_inner_Force(s) ==
    CASE s.tag = "Uninit" ->
            IF s.f.aborts
            THEN [out |-> Panic(InitializerMsg), call |-> <<s.f>>]
            ELSE [out |-> Some(s.f.ret, "owned"), call |-> <<s.f>>]
      [] s.tag = "Poisoned" -> [out |-> panic_poisoned, call |-> <<>>]
      [] s.tag = "Inited" -> [out |-> Some(s.val, "owned"), call |-> <<>>]

\* Seeded fault: into_inner with the Poisoned arm folded into a catch-all
\* that returns None.
into_inner_PoisonedNone(s) ==
    IF s.tag = "Inited"
    THEN [out |-> Some(s.val, "owned"), call |-> <<>>]
    ELSE [out |-> None, call |-> <<>>]

\* LazyMut::into_inner(self) -> Option<T>: the match on self.state.  out is
\* what the call returns or raises, call the initializers it invokes (none:
\* the Uninit arm drops f).
into_inner(s) ==
    CASE s.tag = "Uninit" -> [out |-> None, call |-> <<>>]
      [] s.tag = "Poisoned" -> [out |-> panic_poisoned, call |-> <<>>]
      [] s.tag = "Inited" -> [out |-> Some(s.val, "owned"), call |-> <<>>]

\* Seeded fault: get_or_init storing a fresh default value on every call
\* that finds the cell Inited.
get_or_init_enter_Reset(s) ==
    CASE s.tag = "Poisoned" ->
            [state |-> Poisoned, out |-> panic_poisoned, call |-> <<>>]
      [] s.tag = "Inited" ->
            [state |-> default, out |-> RefMut(DefaultVal), call |-> <<>>]
      [] s.tag = "Uninit" ->
            [state |-> Poisoned, out |-> Pending, call |-> <<s.f>>]

\* Seeded fault: get_or_init calling the initializer in place, without
\* replace(self, Poisoned), so that a panicking initializer stays stored.
get_or_init_enter_NoPoison(s) ==
    CASE s.tag = "Poisoned" ->
            [state |-> s, out |-> panic_poisoned, call |-> <<>>]
      [] s.tag = "Inited" ->
            [state |-> s, out |-> RefMut(s.val), call |-> <<>>]
      [] s.tag = "Uninit" ->
            [state |-> s, out |-> Pending, call |-> <<s.f>>]

\* Seeded fault: get_or_init recovering a Poisoned cell by storing the
\* default value instead of calling panic_poisoned().
get_or_init_enter_Recover(s) ==
    CASE s.tag = "Poisoned" ->
            [state |-> default, out |-> RefMut(DefaultVal), call |-> <<>>]
      [] s.tag = "Inited" ->
            [state |-> s, out |-> RefMut(s.val), call |-> <<>>]
      [] s.tag = "Uninit" ->
            [state |-> Poisoned, out |-> Pending, call |-> <<s.f>>]

\* Seeded fault: get_or_init matching on replace(self, Poisoned) and not
\* putting the value of the Inited arm back.
get_or_init_enter_TakeFirst(s) ==
    CASE s.tag = "Poisoned" ->
            [state |-> Poisoned, out |-> panic_poisoned, call |-> <<>>]
      [] s.tag = "Inited" ->
            [state |-> Poisoned, out |-> RefMut(s.val), call |-> <<>>]
      [] s.tag = "Uninit" ->
            [state |-> Poisoned, out |-> Pending, call |-> <<s.f>>]

\* State::get_or_init up to the call f(): the match, and in the Uninit arm
\* replace(self, Poisoned) and the let-else that takes f out.  state is
\* *self afterwards, out what the call returns or raises (Pending when the
\* initializer is to run), call the initializer about to be invoked.
get_or_init_enter(s) ==
    CASE s.tag = "Poisoned" ->
            [state |-> s, out |-> panic_poisoned, call |-> <<>>]
      [] s.tag = "Inited" ->
            [state |-> s, out |-> RefMut(s.val), call |-> <<>>]
      [] s.tag = "Uninit" ->
            LET this == s
                self == Poisoned
            IN  IF this.tag = "Uninit"
                THEN [state |-> self, out |-> Pending, call |-> <<this.f>>]
                ELSE [state |-> self, out |-> Panic(UnreachableMsg),
                      call |-> <<>>]

\* Seeded fault: get_or_init storing State::default() instead of the value
\* the initializer returned.
get_or_init_store_Default(s, v) ==
    [state |-> default, out |-> RefMut(DefaultVal)]

\* State::get_or_init after f() returned v: *self = State::Inited(v), then
\* self.try_get_mut().unwrap().
get_or_init_store(s, v) ==
    LET self == Inited(v)
        r == State_try_get_mut(self)
    IN  [state |-> r.state, out |-> unwrap(r.out)]

\* Seeded fault: get_or_init catching the initializer's panic and raising
\* the poisoned-reuse panic in its place.
get_or_init_unwind_Wrap(s) ==
    [state |-> s, out |-> panic_poisoned]

\* Seeded fault: get_or_init with a guard that, when the initializer
\* unwinds, puts a default value into the cell.
get_or_init_unwind_Clear(s) ==
    [state |-> default, out |-> Panic(InitializerMsg)]

\* State::get_or_init when f() panics: the unwinding leaves *self as the
\* replace left it and the panic reaches the caller of get().
get_or_init_unwind(s) ==
    [state |-> s, out |-> Panic(InitializerMsg)]

\* Seeded fault: Debug giving a Poisoned cell a placeholder of its own.
fmt_ShowPoisoned(s) ==
    CASE s.tag = "Inited" -> "LazyMut(" \o ToString(s.val) \o ")"
      [] s.tag = "Poisoned" -> "LazyMut(<poisoned>)"
      [] s.tag = "Uninit" -> "LazyMut(<uninit>)"

\* impl Debug for LazyMut: debug_tuple("LazyMut") with one field, the value
\* or format_args!("<uninit>").
fmt(s) ==
    LET t == "LazyMut"
        o == State_try_get(s).out
    IN  IF o.kind = "Some"
        THEN t \o "(" \o ToString(o.val) \o ")"
        ELSE t \o "(" \o "<uninit>" \o ")"

\* The cell exists: it was not consumed by into_inner(self).
Alive == state.tag # "Moved"

\* The caller holds a live &mut T into the cell: the last call returned one.
HoldsMut ==
    \/ result.kind = "RefMut"
    \/ result.kind = "Some" /\ result.ref = "mut"

TypeOK ==
    /\ state.tag \in {"Uninit", "Inited", "Poisoned", "Moved"}
    /\ pc \in {"idle", "init"}
    /\ calls \in Nat
    /\ Len(local) <= 1
    /\ Len(written) <= 1

\* let mut lazy_mut = LazyMut::new(f)  or  LazyMut::default()
Init ==
    /\ \/ \E f \in Initializers :
            /\ state = new(f)
            /\ ctor = [kind |-> "new", f |-> f]
            /\ lastOp = "new"
       \/ /\ state = default
          /\ ctor = [kind |-> "default"]
          /\ lastOp = "default"
    /\ local = <<>>
    /\ pc = "idle"
    /\ result = [kind |-> "Unit"]
    /\ calls = 0
    /\ called = {}
    /\ written = <<>>

\* lazy_mut.try_get()
TryGet ==
    /\ pc = "idle" /\ Alive
    /\ LET r == try_get(state)
       IN  /\ state' = r.state
           /\ result' = r.out
    /\ lastOp' = "try_get"
    /\ called' = called \cup {"try_get"}
    /\ UNCHANGED <<local, pc, ctor, calls, written>>

\* lazy_mut.try_get_mut()
TryGetMut ==
    /\ pc = "idle" /\ Alive
    /\ LET r == try_get_mut(state)
       IN  /\ state' = r.state
           /\ result' = r.out
    /\ lastOp' = "try_get_mut"
    /\ called' = called \cup {"try_get_mut"}
    /\ UNCHANGED <<local, pc, ctor, calls, written>>

\* format!("{:?}", lazy_mut)
DebugFmt ==
    /\ pc = "idle" /\ Alive
    /\ result' = [kind |-> "Str", text |-> fmt(state)]
    /\ lastOp' = "fmt"
    /\ called' = called \cup {"fmt"}
    /\ UNCHANGED <<state, local, pc, ctor, calls, written>>

\* lazy_mut.into_inner(): the cell is moved into the call and is gone
\* afterwards, whether the call returns or panics.
IntoInner ==
    /\ pc = "idle" /\ Alive
    /\ LET r == into_inner(state)
       IN  /\ result' = r.out
           /\ calls' = calls + Len(r.call)
    /\ state' = Moved
    /\ lastOp' = "into_inner"
    /\ called' = called \cup {"into_inner"}
    /\ UNCHANGED <<local, pc, ctor, written>>

\* lazy_mut.get(): self.state.get_or_init(), up to its return, its panic or
\* its call of the initializer.
Get ==
    /\ pc = "idle" /\ Alive
    /\ LET r == get_or_init_enter(state)
       IN  /\ state' = r.state
           /\ result' = r.out
           /\ local' = r.call
           /\ calls' = calls + Len(r.call)
           /\ pc' = IF r.call = <<>> THEN "idle" ELSE "init"
    /\ lastOp' = "get"
    /\ called' = called \cup {"get"}
    /\ UNCHANGED <<ctor, written>>

\* The initializer returns inside get(): the value is stored and get()
\* returns the reference to it.
InitReturn ==
    /\ pc = "init"
    /\ ~local[1].aborts
    /\ LET r == get_or_init_store(state, local[1].ret)
       IN  /\ state' = r.state
           /\ result' = r.out
    /\ local' = <<>>
    /\ pc' = "idle"
    /\ UNCHANGED <<lastOp, ctor, calls, called, written>>

\* The initializer panics inside get(): the panic unwinds through get().
InitPanic ==
    /\ pc = "init"
    /\ local[1].aborts
    /\ LET r == get_or_init_unwind(state)
       IN  /\ state' = r.state
           /\ result' = r.out
    /\ local' = <<>>
    /\ pc' = "idle"
    /\ UNCHANGED <<lastOp, ctor, calls, called, written>>

\* *r = w through the &mut T the last call returned (lazy_mut.get().push(2)
\* in the doctest): the reference points at the value stored in the cell.
Mutate ==
    /\ pc = "idle" /\ Alive
    /\ HoldsMut
    /\ state.tag = "Inited"
    /\ \E w \in Vals :
        /\ state' = [state EXCEPT !.val = w]
        /\ result' = [result EXCEPT !.val = w]
        /\ written' = <<w>>
    /\ lastOp' = "write"
    /\ UNCHANGED <<local, pc, ctor, calls, called>>

Next ==
    \/ TryGet
    \/ TryGetMut
    \/ DebugFmt
    \/ IntoInner
    \/ Get
    \/ InitReturn
    \/ InitPanic
    \/ Mutate

Spec == Init /\ [][Next]_vars

(***************************************************************************)
(* The claims.                                                             *)
(***************************************************************************)

\* C1: for a cell created by new(f), whatever calls are made on it, f is
\* invoked at most once, and every invocation is made inside a get() that
\* found the cell Uninitialized.
C1_InitializerAtMostOnce ==
    [][ (ctor.kind = "new" /\ calls' # calls) =>
            /\ calls = 0 /\ calls' = 1
            /\ pc = "idle" /\ state.tag = "Uninit"
            /\ lastOp' = "get" /\ pc' = "init"
      ]_vars

\* f panicked in get(), get() was called again and the cell then consumed,
\* after try_get, try_get_mut and formatting: f ran once.
C1_Witness ==
    /\ ctor.kind = "new" /\ ctor.f.aborts
    /\ calls = 1
    /\ lastOp = "into_inner"
    /\ {"try_get", "try_get_mut", "get", "fmt"} \subseteq called
    /\ result = panic_poisoned

\* C2: the only state changes are Uninitialized -> Initialized and
\* Uninitialized -> Poisoned, both made by get(); a Poisoned cell stays
\* Poisoned and an Initialized one Initialized, until into_inner consumes
\* the cell.  (While get() runs the initializer the cell is the Poisoned
\* placeholder, and that get() ends Initialized or Poisoned.)
C2_StateChanges ==
    [][ /\ (pc = "idle" /\ state.tag = "Uninit") =>
                \/ state' = state /\ pc' = "idle"
                \/ state' = Poisoned /\ pc' = "init" /\ lastOp' = "get"
                \/ state' = Moved /\ pc' = "idle" /\ lastOp' = "into_inner"
        /\ pc = "init" =>
                /\ state = Poisoned /\ lastOp = "get"
                /\ state'.tag \in {"Inited", "Poisoned"}
                /\ pc' = "idle" /\ lastOp' = "get"
        /\ (pc = "idle" /\ state.tag = "Poisoned") =>
                /\ pc' = "idle"
                /\ \/ state' = state
                   \/ state' = Moved /\ lastOp' = "into_inner"
        /\ state.tag = "Inited" =>
                /\ pc = "idle" /\ pc' = "idle"
                /\ \/ state'.tag = "Inited"
                   \/ state' = Moved /\ lastOp' = "into_inner"
        /\ state.tag = "Moved" => state' = state
      ]_vars

\* get() was called on a cell that was already Poisoned, and it still is.
C2_Witness ==
    /\ state = Poisoned /\ pc = "idle"
    /\ lastOp = "get" /\ result = panic_poisoned

\* C3: if the initializer panics in the first get() of a cell created by
\* new(f), the cell is Poisoned afterwards, and every later get() or
\* into_inner() raises the poisoned-reuse panic, without invoking f again
\* and without returning a value.
C3_PoisonedAfterAbort ==
    [][ (ctor.kind = "new" /\ ctor.f.aborts) =>
            /\ pc = "init" =>
                    /\ state' = Poisoned /\ pc' = "idle"
                    /\ result' = Panic(InitializerMsg)
                    /\ calls' = 1
            /\ (pc = "idle" /\ calls = 1 /\ lastOp' = "get") =>
                    /\ result' = panic_poisoned
                    /\ calls' = 1 /\ pc' = "idle"
                    /\ state' = Poisoned
            /\ (pc = "idle" /\ calls = 1 /\ lastOp' = "into_inner") =>
                    /\ result' = panic_poisoned
                    /\ calls' = 1
      ]_vars

\* The initializer panicked in get(), and a later into_inner() raised the
\* poisoned-reuse panic.
C3_Witness ==
    /\ ctor.kind = "new" /\ ctor.f.aborts
    /\ calls = 1 /\ "get" \in called
    /\ lastOp = "into_inner" /\ result = panic_poisoned

\* C4: for a cell created by new(f) with f returning normally, the first
\* get() invokes f exactly once, leaves the cell Initialized with the value
\* f produced and returns a reference to it; a later get() does not invoke
\* f and returns a reference to the same stored value.
C4_FirstAndSecondGet ==
    [][ (ctor.kind = "new" /\ ~ctor.f.aborts) =>
            /\ (pc = "idle" /\ "get" \notin called /\ lastOp' = "get") =>
                    /\ calls = 0 /\ calls' = 1 /\ pc' = "init"
            /\ pc = "init" =>
                    /\ calls' = 1 /\ pc' = "idle"
                    /\ state' = Inited(ctor.f.ret)
                    /\ result' = RefMut(ctor.f.ret)
            /\ (pc = "idle" /\ "get" \in called /\ lastOp' = "get") =>
                    /\ calls' = calls /\ calls' = 1 /\ pc' = "idle"
                    /\ state.tag = "Inited" /\ state' = state
                    /\ result' = RefMut(state.val)
      ]_vars

\* A second get(), made after a write through the first one's reference.
C4_Witness ==
    /\ ctor.kind = "new" /\ ~ctor.f.aborts
    /\ written # <<>> /\ written[1] # ctor.f.ret
    /\ lastOp = "get" /\ pc = "idle" /\ calls = 1
    /\ result = RefMut(written[1])

\* C5: get() on an Initialized cell returns a reference to the stored value
\* and changes nothing: the state and the stored value are as before the
\* call and the initializer is not invoked.
C5_GetOnInitialized ==
    [][ (pc = "idle" /\ state.tag = "Inited" /\ lastOp' = "get") =>
            /\ state' = state
            /\ result' = RefMut(state.val)
            /\ calls' = calls /\ local' = <<>> /\ pc' = "idle"
      ]_vars

\* get() on a cell that is Initialized without any initializer having run.
C5_Witness ==
    /\ lastOp = "get" /\ pc = "idle"
    /\ state.tag = "Inited" /\ calls = 0
    /\ result = RefMut(state.val)

\* C6: try_get and try_get_mut, in whichever state the cell is, leave the
\* state with its stored value or stored initializer as it was and do not
\* invoke the initializer; try_get_mut on an Uninitialized cell does not
\* initialize it.
C6_TryGetChangesNothing ==
    [][ (pc = "idle" /\ lastOp' \in {"try_get", "try_get_mut"}) =>
            /\ state' = state
            /\ calls' = calls /\ local' = local /\ pc' = "idle"
            /\ written' = written
      ]_vars

\* try_get_mut was just called, try_get before it, and the cell is still
\* Uninitialized.
C6_Witness ==
    /\ lastOp = "try_get_mut" /\ "try_get" \in called
    /\ state.tag = "Uninit" /\ calls = 0
    /\ result = None

\* C7: try_get and try_get_mut return a reference to the stored value exactly
\* when the cell is Initialized, and None when it is Uninitialized or
\* Poisoned; so on a cell created by new(f) both return None as long as get
\* has not been called.
C7_TryGetSomeIffInitialized ==
    lastOp \in {"try_get", "try_get_mut"} =>
        /\ result.kind \in {"Some", "None"}
        /\ result.kind = "Some" <=> state.tag = "Inited"
        /\ result.kind = "Some" =>
                /\ result.val = state.val
                /\ result.ref = IF lastOp = "try_get" THEN "shared" ELSE "mut"
        /\ (ctor.kind = "new" /\ "get" \notin called) => result = None

\* try_get found the value of a cell created by new(f), on which try_get_mut
\* was called as well.
C7_Witness ==
    /\ ctor.kind = "new"
    /\ lastOp = "try_get" /\ "try_get_mut" \in called
    /\ state.tag = "Inited"
    /\ result = Some(state.val, "shared")

\* C8: into_inner consumes the cell and returns Some(stored value) if it is
\* Initialized, None if it is Uninitialized, and raises the poisoned-reuse
\* panic if it is Poisoned; in no state does it invoke the initializer.
C8_IntoInner ==
    [][ (pc = "idle" /\ lastOp' = "into_inner") =>
            /\ state' = Moved
            /\ calls' = calls /\ pc' = "idle"
            /\ state.tag = "Inited" => result' = Some(state.val, "owned")
            /\ state.tag = "Uninit" => result' = None
            /\ state.tag = "Poisoned" => result' = panic_poisoned
      ]_vars

\* into_inner returned the value of a cell whose initializer had run.
C8_Witness ==
    /\ lastOp = "into_inner" /\ state = Moved
    /\ result.kind = "Some" /\ result.ref = "owned"
    /\ calls = 1

\* C9: on a cell created by new(f) on which get is never called, after any
\* try_get, try_get_mut and formatting calls, into_inner returns None and f
\* has never been invoked.
C9_NeverGetNeverInit ==
    (ctor.kind = "new" /\ "get" \notin called) =>
        /\ calls = 0
        /\ lastOp = "into_inner" => result = None

\* into_inner after try_get, try_get_mut and formatting, and no get.
C9_Witness ==
    /\ ctor.kind = "new" /\ "get" \notin called
    /\ {"try_get", "try_get_mut", "fmt"} \subseteq called
    /\ lastOp = "into_inner" /\ result = None

\* C10: a write through the reference returned by get() or try_get_mut() is
\* seen by every later call: try_get, try_get_mut, get and into_inner return
\* the value last written, not the one the initializer produced.
C10_WritesVisible ==
    written # <<>> =>
        /\ state.tag = "Inited" => state.val = written[1]
        /\ lastOp = "try_get" => result = Some(written[1], "shared")
        /\ lastOp = "try_get_mut" => result = Some(written[1], "mut")
        /\ lastOp = "get" => result = RefMut(written[1])
        /\ lastOp = "into_inner" => result = Some(written[1], "owned")

\* into_inner returns a written value that differs from the initializer's,
\* after try_get, try_get_mut and get.
C10_Witness ==
    /\ ctor.kind = "new" /\ ~ctor.f.aborts
    /\ written # <<>> /\ written[1] # ctor.f.ret
    /\ {"try_get", "try_get_mut", "get"} \subseteq called
    /\ lastOp = "into_inner"
    /\ result = Some(written[1], "owned")

\* C11: after get() has returned a reference to a value v, and as long as
\* nothing is written through a reference, try_get returns Some(v) and
\* into_inner returns Some(v) and consumes the cell.  Stated step by step:
\* the reference get() returns is to the value stored in the cell, no call
\* but a write changes the stored value, and try_get and into_inner return
\* the stored value.
C11_GetThenReadBack ==
    [][ /\ (pc' = "idle" /\ lastOp' = "get" /\ result'.kind = "RefMut") =>
                state' = Inited(result'.val)
        /\ (pc = "idle" /\ state.tag = "Inited" /\ lastOp' # "write") =>
                /\ lastOp' \in {"try_get", "try_get_mut", "get", "fmt"} =>
                        state' = state
                /\ lastOp' = "try_get" =>
                        result' = Some(state.val, "shared")
                /\ lastOp' = "into_inner" =>
                        /\ result' = Some(state.val, "owned")
                        /\ state' = Moved
      ]_vars

\* get() and try_get were called, nothing was ever written, and into_inner
\* returned the value the initializer produced.
C11_Witness ==
    /\ ctor.kind = "new" /\ ~ctor.f.aborts
    /\ written = <<>>
    /\ {"get", "try_get"} \subseteq called
    /\ lastOp = "into_inner" /\ state = Moved
    /\ result = Some(ctor.f.ret, "owned")

\* C12: a cell built by Default is Initialized with the default value from
\* the start and is never Uninitialized: no initializer is ever invoked,
\* and, until something is written, try_get returns Some(default), get a
\* reference to the default and into_inner Some(default).
C12_DefaultIsInitialized ==
    ctor.kind = "default" =>
        /\ calls = 0 /\ pc = "idle" /\ local = <<>>
        /\ state.tag \in {"Inited", "Moved"}
        /\ written = <<>> =>
                /\ state.tag = "Inited" => state = Inited(DefaultVal)
                /\ lastOp = "try_get" => result = Some(DefaultVal, "shared")
                /\ lastOp = "try_get_mut" => result = Some(DefaultVal, "mut")
                /\ lastOp = "get" => result = RefMut(DefaultVal)
                /\ lastOp = "into_inner" => result = Some(DefaultVal, "owned")

\* into_inner on a Default-built cell, after try_get and get.
C12_Witness ==
    /\ ctor.kind = "default"
    /\ {"try_get", "get"} \subseteq called
    /\ written = <<>>
    /\ lastOp = "into_inner"
    /\ result = Some(DefaultVal, "owned")

\* C13: the poisoned-reuse panic is raised only by get or into_inner, and
\* only when the cell is Poisoned at the call.  try_get, try_get_mut and
\* Debug formatting raise nothing in any state, and get and into_inner do
\* not raise the poisoned-reuse panic on an Uninitialized or Initialized
\* cell (nor does the get() that runs the initializer, when it ends).
C13_PoisonedReuseOnlyOnPoisoned ==
    [][ /\ (pc = "idle" /\ lastOp' \in {"try_get", "try_get_mut", "fmt"}) =>
                result'.kind # "Panic"
        /\ (pc = "idle" /\ lastOp' \in {"get", "into_inner"}
                /\ state.tag \in {"Uninit", "Inited"}) =>
                result' # panic_poisoned
        /\ pc = "init" => result' # panic_poisoned
        /\ (result' = panic_poisoned /\ lastOp' # lastOp) =>
                /\ pc = "idle" /\ state = Poisoned
                /\ lastOp' \in {"get", "into_inner"}
        /\ (result' = panic_poisoned /\ result # panic_poisoned) =>
                /\ pc = "idle" /\ state = Poisoned
                /\ lastOp' \in {"get", "into_inner"}
      ]_vars

\* try_get on a Poisoned cell returned None, after try_get_mut and
\* formatting; no panic.
C13_Witness ==
    /\ state = Poisoned /\ pc = "idle"
    /\ {"try_get_mut", "fmt"} \subseteq called
    /\ lastOp = "try_get" /\ result = None

\* C14: Debug formatting shows the stored value exactly when the cell is
\* Initialized and the placeholder <uninit> otherwise, the same text for an
\* Uninitialized and a Poisoned cell; it does not invoke the initializer
\* and does not change the state.
C14_DebugRendering ==
    [][ (pc = "idle" /\ lastOp' = "fmt") =>
            /\ state' = state
            /\ calls' = calls /\ local' = local /\ pc' = "idle"
            /\ result'.kind = "Str"
            /\ state.tag = "Inited" =>
                    result'.text = "LazyMut(" \o ToString(state.val) \o ")"
            /\ state.tag \in {"Uninit", "Poisoned"} =>
                    result'.text = "LazyMut(<uninit>)"
      ]_vars

\* A Poisoned cell was formatted, and shows the placeholder.
C14_Witness ==
    /\ state = Poisoned /\ pc = "idle"
    /\ lastOp = "fmt"
    /\ result = [kind |-> "Str", text |-> "LazyMut(<uninit>)"]

\* The cell is one variant of State (or gone), with that variant's field
\* and nothing else: never an initializer together with a value.
OneVariant(s) ==
    \/ s.tag = "Uninit" /\ DOMAIN s = {"tag", "f"} /\ s.f \in Initializers
    \/ s.tag = "Inited" /\ DOMAIN s = {"tag", "val"} /\ s.val \in Vals
    \/ s = Poisoned
    \/ s = Moved

\* C15: get() on an Uninitialized cell makes the state Poisoned before it
\* invokes the initializer, which it has taken out of the cell; the state
\* is Poisoned as long as the initializer runs, and becomes Initialized
\* only when the initializer has returned normally, with the value it
\* returned.  The cell never holds an initializer and a value together.
C15_PoisonedWhileInitializing ==
    [][ /\ OneVariant(state) /\ OneVariant(state')
        /\ pc' = "init" =>
                /\ pc = "idle" /\ state.tag = "Uninit"
                /\ state' = Poisoned
                /\ local' = <<state.f>>
                /\ calls' = calls + 1
        /\ pc = "init" =>
                /\ state = Poisoned /\ Len(local) = 1
                /\ pc' = "idle" /\ local' = <<>>
                /\ local[1].aborts => state' = Poisoned
                /\ ~local[1].aborts => state' = Inited(local[1].ret)
        /\ (state.tag # "Inited" /\ state'.tag = "Inited") =>
                /\ pc = "init" /\ state = Poisoned
                /\ ~local[1].aborts
      ]_vars

\* get() is inside an initializer that is going to return, and the cell is
\* Poisoned.
C15_Witness ==
    /\ pc = "init" /\ state = Poisoned
    /\ Len(local) = 1 /\ ~local[1].aborts
    /\ lastOp = "get" /\ result = Pending

\* C16: whenever get() returns normally, the cell is Initialized and holds
\* the value get() returned a reference to, and a try_get made right after
\* returns Some of that value; a get() called on a Poisoned cell does not
\* return normally.
C16_GetReturnsInitialized ==
    [][ /\ (pc' = "idle" /\ lastOp' = "get" /\ result'.kind = "RefMut") =>
                /\ state'.tag = "Inited"
                /\ state'.val = result'.val
                /\ pc = "idle" => state.tag = "Inited"
                /\ pc = "init" => calls = 1
        /\ (pc = "idle" /\ state = Poisoned /\ lastOp' = "get") =>
                result'.kind = "Panic"
        /\ (pc = "idle" /\ lastOp = "get" /\ result.kind = "RefMut"
                /\ lastOp' = "try_get") =>
                result' = Some(result.val, "shared")
      ]_vars

\* get() has run the initializer and returned a reference to the value now
\* stored.
C16_Witness ==
    /\ ctor.kind = "new" /\ calls = 1
    /\ lastOp = "get" /\ pc = "idle"
    /\ state.tag = "Inited"
    /\ result = RefMut(state.val)

\* C17: when the initializer panics during get(), what the caller of get()
\* sees is the initializer's panic, not the poisoned-reuse panic and not a
\* returned reference; the initializer is not invoked a second time, and
\* the poisoned-reuse panic comes only from a later get or into_inner.
C17_InitializerPanicPropagates ==
    [][ /\ (pc = "init" /\ local[1].aborts) =>
                /\ result' = Panic(InitializerMsg)
                /\ lastOp' = "get" /\ pc' = "idle"
                /\ calls' = calls /\ local' = <<>>
        /\ (pc = "idle" /\ result = Panic(InitializerMsg)) =>
                /\ calls' = calls /\ pc' = "idle"
                /\ lastOp' \in {"get", "into_inner"} =>
                        result' = panic_poisoned
      ]_vars

\* get() has just ended with the initializer's panic.
C17_Witness ==
    /\ ctor.kind = "new" /\ ctor.f.aborts
    /\ lastOp = "get" /\ pc = "idle" /\ calls = 1
    /\ result = Panic(InitializerMsg)
    /\ state = Poisoned

\* C18: between calls, a cell is Poisoned if and only if its initializer
\* was invoked by get() and did not return normally.  Construction by new
\* or Default, try_get, try_get_mut, formatting, writes and a get() whose
\* initializer returns never leave a Poisoned cell.
C18_PoisonedIffInitializerFailed ==
    (pc = "idle" /\ Alive) =>
        /\ state = Poisoned <=>
                /\ ctor.kind = "new" /\ ctor.f.aborts
                /\ calls = 1 /\ "get" \in called
        /\ (ctor.kind = "default" \/ ~ctor.f.aborts) =>
                state.tag \in {"Uninit", "Inited"}
        /\ "get" \notin called => state.tag \in {"Uninit", "Inited"}

\* A cell whose initializer returned has been through get, try_get,
\* try_get_mut, formatting and a write, and is Initialized.
C18_Witness ==
    /\ ctor.kind = "new" /\ ~ctor.f.aborts
    /\ pc = "idle" /\ calls = 1
    /\ {"get", "try_get", "try_get_mut", "fmt"} \subseteq called
    /\ written # <<>>
    /\ state.tag = "Inited"

\* C19: neither assertion inside the Uninit arm of get_or_init fires: what
\* replace(self, Poisoned) takes out is the Uninit variant, so unreachable!()
\* is not reached, and after *self = Inited(f()) try_get_mut() finds the
\* value, so unwrap() does not meet None.  A get() that ran the initializer
\* to its return ends with the reference to the stored value.
C19_InternalAssertionsHold ==
    /\ result # Panic(UnreachableMsg)
    /\ result # Panic(UnwrapMsg)
    /\ pc = "init" => (Len(local) = 1 /\ result = Pending)
    /\ (pc = "idle" /\ lastOp = "get" /\ calls = 1 /\ ctor.kind = "new"
            /\ ~ctor.f.aborts) =>
            result.kind = "RefMut"

\* get() went through the Uninit arm, stored the initializer's value and
\* returned the unwrapped reference to it.
C19_Witness ==
    /\ ctor.kind = "new" /\ ~ctor.f.aborts
    /\ lastOp = "get" /\ pc = "idle" /\ calls = 1
    /\ written = <<>>
    /\ state = Inited(ctor.f.ret)
    /\ result = RefMut(ctor.f.ret)

====
